---- MODULE Spec2Model ----
(***************************************************************************)
(* Trial orchestration and aggregation of simple_network_sim:              *)
(* sampleUseOfModel.main and sampleUseOfModel.runSimulation.               *)
(*                                                                         *)
(* Objects that Python handles by reference (the network and its clones,   *)
(* the keyed data frames) live in two heaps, nets and frames; a variable   *)
(* of the program holds an index into its heap, 0 standing for None.       *)
(* A pandas total is an exact rational [n, d]; NaN is [0, 0].              *)
(***************************************************************************)
EXTENDS Integers, Sequences, FiniteSets, TLC

\* ---------------------------------------------------------------- bounds
MaxTrials == 3
MaxTime == 0

\* ------------------------------------------------------- network contents
NodeSeq == <<"n1">>
AgeSeq == <<"a1">>
StateSeq == <<"S", "I">>
InfectedCounts == {10, 20, 30}

NetworkKeys == {<<NodeSeq[n], AgeSeq[a]>> : n \in DOMAIN NodeSeq, a \in DOMAIN AgeSeq}

\* the initialState of the network main builds: everybody susceptible
Template ==
  [na \in NetworkKeys |-> [s \in {StateSeq[k] : k \in DOMAIN StateSeq} |-> IF s = "S" THEN 1000 ELSE 0]]

\* an InfectionSet: a sequence of (region, age, compartment, count)
InfectionSet(c) == << [node |-> NodeSeq[1], age |-> AgeSeq[1], state |-> "I", count |-> c] >>

\* ------------------------------------------------------------- arithmetic
RECURSIVE GCD(_, _)
GCD(a, b) == IF b = 0 THEN a ELSE GCD(b, a % b)

NaN == [n |-> 0, d |-> 0]

IsNaN(x) == x.d = 0

Norm(n, d) == LET g == GCD(IF n < 0 THEN -n ELSE n, d) IN [n |-> n \div g, d |-> d \div g]

FromInt(c) == [n |-> c, d |-> 1]

\* float addition, NaN absorbing
RatAdd(x, y) == IF IsNaN(x) \/ IsNaN(y) THEN NaN ELSE Norm(x.n * y.d + y.n * x.d, x.d * y.d)

\* true division of a float by a positive int
RatDiv(x, k) == IF IsNaN(x) THEN NaN ELSE Norm(x.n, x.d * k)

\* ------------------------------------------------- external collaborators
\* exposeRegions(infections, initialState): moves count people from S into
\* the compartment of every tuple of the InfectionSet
RECURSIVE exposeRegions(_, _)
exposeRegions(infections, initialState) ==
  IF infections = << >> THEN initialState
  ELSE LET t == Head(infections)
           na == <<t.node, t.age>>
           moved == [initialState EXCEPT ![na] =
                       [@ EXCEPT !["S"] = @ - t.count, ![t.state] = @ + t.count]]
       IN exposeRegions(Tail(infections), moved)

RowsPerTime == Len(NodeSeq) * Len(AgeSeq) * Len(StateSeq)

RowKey(k) ==
  LET s == k % Len(StateSeq)
      a == (k \div Len(StateSeq)) % Len(AgeSeq)
      n == (k \div (Len(StateSeq) * Len(AgeSeq))) % Len(NodeSeq)
      t == k \div RowsPerTime
  IN <<t, NodeSeq[n + 1], AgeSeq[a + 1], StateSeq[s + 1]>>

MakeRow(key, total) ==
  [time |-> key[1], node |-> key[2], age |-> key[3], state |-> key[4], total |-> total]

\* basicSimulationInternalAgeStructure(network, max_time): one row per
\* (time, node, age, state), time 0 .. max_time, holding the occupancy
CompleteRun(initialState, maxTime) ==
  [k \in 1..((maxTime + 1) * RowsPerTime) |->
     LET key == RowKey(k - 1)
     IN MakeRow(key, FromInt(initialState[<<key[2], key[3]>>][key[4]]))]

Defects == {"none", "missing", "extra"}

\* a defective external model loses its last row or reports a row too many
basicSimulationInternalAgeStructure(initialState, maxTime, defect) ==
  LET rows == CompleteRun(initialState, maxTime)
  IN CASE defect = "none" -> rows
       [] defect = "missing" -> SubSeq(rows, 1, Len(rows) - 1)
       [] defect = "extra" ->
            Append(rows, MakeRow(<<maxTime + 1, NodeSeq[1], AgeSeq[1], StateSeq[1]>>, FromInt(0)))

\* ------------------------------------------------------------- data frames
\* DataFrame.set_index(["time", "node", "age", "state"])
set_index(rows) ==
  [index |-> [k \in 1..Len(rows) |-> <<rows[k].time, rows[k].node, rows[k].age, rows[k].state>>],
   total |-> [k \in 1..Len(rows) |-> rows[k].total]]

\* DataFrame.reset_index()
reset_index(frame) ==
  [k \in 1..Len(frame.index) |-> MakeRow(frame.index[k], frame.total[k])]

KeySet(frame) == {frame.index[k] : k \in DOMAIN frame.index}

Lookup(frame, key) == frame.total[CHOOSE j \in DOMAIN frame.index : frame.index[j] = key]

\* the += slip that keeps only the last trial's totals
IAddTotal_overwrite(agg, idx) ==
  [agg EXCEPT !.total =
     [k \in 1..Len(agg.index) |->
        IF agg.index[k] \in KeySet(idx) THEN Lookup(idx, agg.index[k]) ELSE NaN]]

\* aggregated.total += indexed.total: the sum is aligned on the index and
\* reindexed like aggregated; a key indexed lacks gives NaN, a key only
\* indexed has is dropped
IAddTotal(agg, idx) ==
  [agg EXCEPT !.total =
     [k \in 1..Len(agg.index) |->
        IF agg.index[k] \in KeySet(idx)
          THEN RatAdd(agg.total[k], Lookup(idx, agg.index[k]))
          ELSE NaN]]

\* the division slip that counts one trial too many
IDivTotal_offbyone(rows, trials) ==
  [k \in 1..Len(rows) |-> [rows[k] EXCEPT !.total = RatDiv(@, trials + 1)]]

\* averaged.total /= trials
IDivTotal(rows, trials) ==
  [k \in 1..Len(rows) |-> [rows[k] EXCEPT !.total = RatDiv(@, trials)]]

\* binding the template itself instead of a copy
deepcopy_alias(heap, src) == [heap |-> heap, ref |-> src]

\* copy.deepcopy(network): a new object with the same content
deepcopy(heap, src) == [heap |-> Append(heap, heap[src]), ref |-> Len(heap) + 1]

\* a loop that stops one trial short
InRange_short(i, trials) == i < trials - 1

\* for i in range(trials)
InRange(i, trials) == i < trials

\* every trial taking the first InfectionSet
InfectionAt_first(infections, i) == infections[1]

\* initialInfections[i]
InfectionAt(infections, i) == infections[i + 1]

\* ------------------------------------------------------------------ state
VARIABLES
  pc,                 \* position in main / runSimulation
  cmd,                \* args.cmd
  trials,             \* args.trials
  max_time,           \* args.time
  initialInfections,  \* the list main builds and passes on
  nets,               \* heap of networks (their initialState); nets[1] is the template
  disposableNetwork,  \* reference into nets, 0 = unbound
  i,                  \* loop variable of runSimulation
  frames,             \* heap of keyed data frames; frames[j + 1] is made by trial j
  indexed,            \* reference into frames, 0 = unbound
  aggregated,         \* reference into frames, 0 = None
  averaged,           \* << >> or <<rows>>
  results,            \* what runSimulation returned to main: << >> or <<rows>>
  written,            \* what main wrote to the output table: << >> or <<rows>>
  error,              \* the exception that left main, "" = none
  log,                \* history: the calls made, in order
  trialResult,        \* history: the rows each model run returned
  divisions           \* history: how often the total column was divided

vars == <<pc, cmd, trials, max_time, initialInfections, nets, disposableNetwork, i, frames,
          indexed, aggregated, averaged, results, written, error, log, trialResult, divisions>>

network == 1

Init ==
  /\ pc = "seed"
  /\ cmd \in {"seeded", "random"}
  /\ trials \in (-1)..MaxTrials
  /\ max_time \in 0..MaxTime
  /\ initialInfections = << >>
  /\ nets = <<Template>>
  /\ disposableNetwork = 0
  /\ i = 0
  /\ frames = << >>
  /\ indexed = 0
  /\ aggregated = 0
  /\ averaged = << >>
  /\ results = << >>
  /\ written = << >>
  /\ error = ""
  /\ log = << >>
  /\ trialResult = << >>
  /\ divisions = 0

\* ------------------------------------------------------------------- main
\* seeded: one InfectionSet read from the table
ReadInitialInfections ==
  /\ pc = "seed"
  /\ cmd = "seeded"
  /\ \E c \in InfectedCounts : initialInfections' = Append(initialInfections, InfectionSet(c))
  /\ pc' = "call"
  /\ UNCHANGED <<cmd, trials, max_time, nets, disposableNetwork, i, frames, indexed, aggregated,
                 averaged, results, written, error, log, trialResult, divisions>>

\* random: one drawn InfectionSet per element of range(args.trials)
RandomlyInfectRegions ==
  /\ pc = "seed"
  /\ cmd = "random"
  /\ Len(initialInfections) < trials
  /\ \E c \in InfectedCounts : initialInfections' = Append(initialInfections, InfectionSet(c))
  /\ UNCHANGED <<pc, cmd, trials, max_time, nets, disposableNetwork, i, frames, indexed,
                 aggregated, averaged, results, written, error, log, trialResult, divisions>>

RandomDone ==
  /\ pc = "seed"
  /\ cmd = "random"
  /\ ~(Len(initialInfections) < trials)
  /\ pc' = "call"
  /\ UNCHANGED <<cmd, trials, max_time, initialInfections, nets, disposableNetwork, i, frames,
                 indexed, aggregated, averaged, results, written, error, log, trialResult,
                 divisions>>

\* results = runSimulation(...): entry and the branch on trials <= 1
CallRunSimulation ==
  /\ pc = "call"
  /\ IF trials <= 1
       THEN pc' = "f_clone" /\ UNCHANGED <<aggregated, i>>
       ELSE pc' = "m_for" /\ aggregated' = 0 /\ i' = 0
  /\ UNCHANGED <<cmd, trials, max_time, initialInfections, nets, disposableNetwork, frames,
                 indexed, averaged, results, written, error, log, trialResult, divisions>>

\* store.write_table(..., results)
WriteTable ==
  /\ pc = "write"
  /\ written' = results
  /\ pc' = "done"
  /\ UNCHANGED <<cmd, trials, max_time, initialInfections, nets, disposableNetwork, i, frames,
                 indexed, aggregated, averaged, results, error, log, trialResult, divisions>>

\* an exception leaves runSimulation and main: nothing catches it
Raise(kind) ==
  /\ pc' = "raised"
  /\ error' = kind
  /\ UNCHANGED <<cmd, trials, max_time, initialInfections, nets, disposableNetwork, i, frames,
                 indexed, aggregated, averaged, results, written, log, trialResult, divisions>>

\* ------------------------------------------- runSimulation, trials <= 1
FastClone ==
  /\ pc = "f_clone"
  /\ LET c == deepcopy(nets, network)
     IN nets' = c.heap /\ disposableNetwork' = c.ref
  /\ log' = Append(log, <<"clone", 0, << >> >>)
  /\ pc' = "f_expose"
  /\ UNCHANGED <<cmd, trials, max_time, initialInfections, i, frames, indexed, aggregated,
                 averaged, results, written, error, trialResult, divisions>>

FastExpose ==
  /\ pc = "f_expose"
  /\ IF Len(initialInfections) = 0
       THEN Raise("IndexError")
       ELSE /\ nets' = [nets EXCEPT ![disposableNetwork] =
                          exposeRegions(InfectionAt(initialInfections, 0), @)]
            /\ log' = Append(log, <<"expose", 0, InfectionAt(initialInfections, 0)>>)
            /\ pc' = "f_run"
            /\ UNCHANGED <<cmd, trials, max_time, initialInfections, disposableNetwork, i,
                           frames, indexed, aggregated, averaged, results, written, error,
                           trialResult, divisions>>

FastRun ==
  /\ pc = "f_run"
  /\ \E defect \in Defects :
       LET rows == basicSimulationInternalAgeStructure(nets[disposableNetwork], max_time, defect)
       IN /\ results' = <<rows>>
          /\ trialResult' = Append(trialResult, rows)
  /\ log' = Append(log, <<"run", 0, << >> >>)
  /\ pc' = "write"
  /\ UNCHANGED <<cmd, trials, max_time, initialInfections, nets, disposableNetwork, i, frames,
                 indexed, aggregated, averaged, written, error, divisions>>

\* -------------------------------------------- runSimulation, trials > 1
ForNext ==
  /\ pc = "m_for"
  /\ InRange(i, trials)
  /\ pc' = "m_clone"
  /\ UNCHANGED <<cmd, trials, max_time, initialInfections, nets, disposableNetwork, i, frames,
                 indexed, aggregated, averaged, results, written, error, log, trialResult,
                 divisions>>

LoopClone ==
  /\ pc = "m_clone"
  /\ LET c == deepcopy(nets, network)
     IN nets' = c.heap /\ disposableNetwork' = c.ref
  /\ log' = Append(log, <<"clone", i, << >> >>)
  /\ pc' = "m_expose"
  /\ UNCHANGED <<cmd, trials, max_time, initialInfections, i, frames, indexed, aggregated,
                 averaged, results, written, error, trialResult, divisions>>

LoopExpose ==
  /\ pc = "m_expose"
  /\ IF ~(i < Len(initialInfections))
       THEN Raise("IndexError")
       ELSE /\ nets' = [nets EXCEPT ![disposableNetwork] =
                          exposeRegions(InfectionAt(initialInfections, i), @)]
            /\ log' = Append(log, <<"expose", i, InfectionAt(initialInfections, i)>>)
            /\ pc' = "m_run"
            /\ UNCHANGED <<cmd, trials, max_time, initialInfections, disposableNetwork, i,
                           frames, indexed, aggregated, averaged, results, written, error,
                           trialResult, divisions>>

\* the model run and set_index on what it returns
LoopRun ==
  /\ pc = "m_run"
  /\ \E defect \in Defects :
       LET rows == basicSimulationInternalAgeStructure(nets[disposableNetwork], max_time, defect)
       IN /\ frames' = Append(frames, set_index(rows))
          /\ trialResult' = Append(trialResult, rows)
  /\ indexed' = Len(frames) + 1
  /\ log' = Append(log, <<"run", i, << >> >>)
  /\ pc' = "m_merge"
  /\ UNCHANGED <<cmd, trials, max_time, initialInfections, nets, disposableNetwork, i,
                 aggregated, averaged, results, written, error, divisions>>

\* aggregated = indexed binds the same object; += updates that object
LoopMerge ==
  /\ pc = "m_merge"
  /\ IF aggregated = 0
       THEN aggregated' = indexed /\ UNCHANGED frames
       ELSE /\ frames' = [frames EXCEPT ![aggregated] = IAddTotal(@, frames[indexed])]
            /\ UNCHANGED aggregated
  /\ log' = Append(log, <<"merge", i, << >> >>)
  /\ i' = i + 1
  /\ pc' = "m_for"
  /\ UNCHANGED <<cmd, trials, max_time, initialInfections, nets, disposableNetwork, indexed,
                 averaged, results, written, error, trialResult, divisions>>

\* averaged = aggregated.reset_index(), once range(trials) is exhausted
ResetIndex ==
  /\ pc = "m_for"
  /\ ~InRange(i, trials)
  /\ averaged' = <<reset_index(frames[aggregated])>>
  /\ pc' = "m_div"
  /\ UNCHANGED <<cmd, trials, max_time, initialInfections, nets, disposableNetwork, i, frames,
                 indexed, aggregated, results, written, error, log, trialResult, divisions>>

Divide ==
  /\ pc = "m_div"
  /\ averaged' = <<IDivTotal(averaged[1], trials)>>
  /\ divisions' = divisions + 1
  /\ pc' = "m_ret"
  /\ UNCHANGED <<cmd, trials, max_time, initialInfections, nets, disposableNetwork, i, frames,
                 indexed, aggregated, results, written, error, log, trialResult>>

Return ==
  /\ pc = "m_ret"
  /\ results' = averaged
  /\ pc' = "write"
  /\ UNCHANGED <<cmd, trials, max_time, initialInfections, nets, disposableNetwork, i, frames,
                 indexed, aggregated, averaged, written, error, log, trialResult, divisions>>

\* ------------------------------------------ failures of the external calls
CloneRaises ==
  /\ pc \in {"f_clone", "m_clone"}
  /\ Raise("External")

ExposeRaises ==
  /\ pc \in {"f_expose", "m_expose"}
  /\ 0 < Len(initialInfections) /\ (pc = "m_expose" => i < Len(initialInfections))
  /\ Raise("External")

\* a failed model run skipped with the loop going on
RunRaises_swallowed ==
  /\ pc \in {"f_run", "m_run"}
  /\ IF pc = "f_run"
       THEN Raise("External")
       ELSE /\ error' = "External"
            /\ i' = i + 1
            /\ pc' = "m_for"
            /\ UNCHANGED <<cmd, trials, max_time, initialInfections, nets, disposableNetwork,
                           frames, indexed, aggregated, averaged, results, written, log,
                           trialResult, divisions>>

RunRaises ==
  /\ pc \in {"f_run", "m_run"}
  /\ Raise("External")

Next ==
  \/ ReadInitialInfections
  \/ RandomlyInfectRegions
  \/ RandomDone
  \/ CallRunSimulation
  \/ WriteTable
  \/ FastClone
  \/ FastExpose
  \/ FastRun
  \/ ForNext
  \/ LoopClone
  \/ LoopExpose
  \/ LoopRun
  \/ LoopMerge
  \/ ResetIndex
  \/ Divide
  \/ Return
  \/ CloneRaises
  \/ ExposeRaises
  \/ RunRaises

Spec == Init /\ [][Next]_vars

\* --------------------------------------------------- the multi-trial path
\* the loop of runSimulation over the rows of trials 1 .. j, as a function
RECURSIVE Accumulate(_, _)
Accumulate(rs, j) ==
  IF j = 1 THEN set_index(rs[1])
  ELSE IAddTotal(Accumulate(rs, j - 1), set_index(rs[j]))

\* the else branch of runSimulation as a function of the trials' rows
MultiTrialPath(rs, n) == IDivTotal(reset_index(Accumulate(rs, n)), n)

\* ------------------------------------------------------ auxiliary notions
Returned == pc \in {"write", "done"}

InRunSimulation == pc \notin {"seed", "call"}

Events(kind) == {k \in DOMAIN log : log[k][1] = kind}

EventsOf(kind, trial) == {k \in DOMAIN log : log[k][1] = kind /\ log[k][2] = trial}

RowKeys(rows) == {<<rows[k].time, rows[k].node, rows[k].age, rows[k].state>> : k \in DOMAIN rows}

KeyOf(row) == <<row.time, row.node, row.age, row.state>>

TotalAt(rows, key) == rows[CHOOSE k \in DOMAIN rows : KeyOf(rows[k]) = key].total

SameKeys == \A j \in DOMAIN trialResult : RowKeys(trialResult[j]) = RowKeys(trialResult[1])

\* sum of the numerators of key's total over trials 1 .. j (the model's
\* runs report whole numbers)
RECURSIVE SumOver(_, _)
SumOver(key, j) == IF j = 0 THEN 0 ELSE SumOver(key, j - 1) + TotalAt(trialResult[j], key).n

\* ------------------------------------------------------------------ claims
\* C1: averaging correctness - when runSimulation returns from the
\* multi-trial path and all trials' results share one key set, the returned
\* table has exactly those keys and each total is the sum of that key's
\* total over all trials divided by trials.
C1_AveragingCorrect ==
  (Returned /\ trials > 1 /\ SameKeys) =>
     /\ RowKeys(results[1]) = RowKeys(trialResult[1])
     /\ Len(results[1]) = Len(trialResult[1])
     /\ \A k \in DOMAIN results[1] :
          LET r == results[1][k]
          IN /\ ~IsNaN(r.total)
             /\ r.total.n * trials = r.total.d * SumOver(KeyOf(r), trials)

C1_Witness ==
  /\ pc = "done"
  /\ trials = 3
  /\ max_time = 0
  /\ \A j \in 1..3 : trialResult[j] = CompleteRun(exposeRegions(InfectionSet(10 * j), Template), 0)
  /\ written = << <<MakeRow(<<0, "n1", "a1", "S">>, FromInt(980)),
                    MakeRow(<<0, "n1", "a1", "I">>, FromInt(20))>> >>

\* C2: single-trial equivalence - what the fast path returns for
\* trials = 1 is, row for row, what the multi-trial path computes from the
\* same single run (and the multi-trial path, when taken, returns what that
\* function computes from its runs).
C2_SingleTrialEquivalence ==
  Returned =>
     /\ trials = 1 => results[1] = MultiTrialPath(trialResult, 1)
     /\ trials > 1 => results[1] = MultiTrialPath(trialResult, trials)

C2_Witness ==
  /\ pc = "done"
  /\ trials = 1
  /\ Len(trialResult) = 1
  /\ written = <<trialResult[1]>>
  /\ \E k \in DOMAIN written[1] : written[1][k].state = "I" /\ written[1][k].total = FromInt(20)

\* C3: a (positive) trial count that differs from the number of
\* InfectionSets makes runSimulation fail before any clone is exposed and
\* any model run starts; nothing is returned.
C3_MismatchFailsBeforeAnyTrial ==
  (InRunSimulation /\ trials > 0 /\ Len(initialInfections) # trials) =>
     /\ Events("expose") = {}
     /\ Events("run") = {}
     /\ ~Returned

\* C4: trials <= 0 is rejected - no InfectionSet is consumed, no model is
\* run and no time series is returned.
C4_NonPositiveTrialsRejected ==
  (InRunSimulation /\ trials <= 0) =>
     /\ Events("expose") = {}
     /\ Events("run") = {}
     /\ results = << >>

\* C5: trial isolation - the template is never changed, the network a
\* trial works on is never the template, a fresh clone equals the template,
\* and the clone of every trial shows the exposure of its own InfectionSet
\* and nothing else; the InfectionSets stay the ones main built.
C5_TrialIsolation ==
  /\ nets[network] = Template
  /\ disposableNetwork # network
  /\ Len(nets) = 1 + Cardinality(Events("clone"))
  /\ pc \in {"f_expose", "m_expose"} =>
       /\ disposableNetwork = Len(nets)
       /\ nets[disposableNetwork] = Template
  /\ \A j \in 0..(Cardinality(Events("expose")) - 1) :
       nets[j + 2] = exposeRegions(InfectionAt(initialInfections, j), Template)
  /\ \A k \in Events("expose") : log[k][3] = InfectionAt(initialInfections, log[k][2])

C5_Witness ==
  /\ pc = "m_merge"
  /\ i = 1
  /\ Len(nets) = 3
  /\ nets[2] # nets[3]
  /\ nets[2] # Template
  /\ nets[3] # Template

\* C6: in the multi-trial path, once a trial whose key set differs from the
\* accumulator's has been merged, runSimulation has raised an error.
MergedMismatch ==
  \E k \in Events("merge") :
     /\ log[k][2] >= 1
     /\ RowKeys(trialResult[log[k][2] + 1]) # RowKeys(trialResult[1])

C6_KeyMismatchRaises == (trials > 1 /\ MergedMismatch) => pc = "raised"

\* C7: trial ordering and call count - with trials > 1 and as many
\* InfectionSets as trials, the calls made are, in this order and for
\* i = 0 .. trials - 1: clone, expose InfectionSets[i], run, merge; when
\* the loop is left all 4 * trials calls have been made.
ExpectedEvent(k) ==
  LET t == (k - 1) \div 4
      p == (k - 1) % 4
  IN CASE p = 0 -> <<"clone", t, << >> >>
       [] p = 1 -> <<"expose", t, initialInfections[t + 1]>>
       [] p = 2 -> <<"run", t, << >> >>
       [] p = 3 -> <<"merge", t, << >> >>

C7_TrialOrdering ==
  (InRunSimulation /\ trials > 1 /\ Len(initialInfections) = trials) =>
     /\ Len(log) <= 4 * trials
     /\ \A k \in DOMAIN log : log[k] = ExpectedEvent(k)
     /\ pc \in {"m_for", "m_clone"} => Len(log) = 4 * i
     /\ pc \in {"m_div", "m_ret", "write", "done"} =>
          /\ Len(log) = 4 * trials
          /\ Cardinality(Events("expose")) = trials
          /\ Cardinality(Events("run")) = trials

C7_Witness ==
  /\ pc = "done"
  /\ trials = 3
  /\ Len(log) = 12
  /\ initialInfections = <<InfectionSet(30), InfectionSet(10), InfectionSet(20)>>

\* C8: a failure of the clone, of exposeRegions or of the model run ends
\* the run at once: nothing more happens, runSimulation returns no table
\* and main writes none.
C8_FailureAborts ==
  /\ [](error = "External" => (pc = "raised" /\ results = << >> /\ written = << >>))
  /\ [][pc = "raised" => UNCHANGED vars]_vars

C8_Witness ==
  /\ pc = "raised"
  /\ error = "External"
  /\ trials = 3
  /\ i = 1
  /\ aggregated = 1
  /\ Len(frames) = 1

\* C9: accumulator lifecycle - no trial is merged twice, the total column
\* is divided at most once and only after every trial was merged once, and
\* what the multi-trial path returns is the accumulator divided once.
C9_AccumulatorLifecycle ==
  trials > 1 =>
     /\ \A j \in 0..(trials - 1) : Cardinality(EventsOf("merge", j)) <= 1
     /\ divisions <= 1
     /\ divisions = 1 => \A j \in 0..(trials - 1) : Cardinality(EventsOf("merge", j)) = 1
     /\ ~Returned => results = << >>
     /\ Returned =>
          /\ divisions = 1
          /\ results = <<IDivTotal(reset_index(frames[aggregated]), trials)>>
          /\ Len(frames) = trials

C9_Witness ==
  /\ pc = "done"
  /\ trials = 3
  /\ divisions = 1
  /\ Cardinality(Events("merge")) = 3

\* C10: the accumulator is a copy - no update of the accumulator changes
\* the keyed result of any trial.
C10_AccumulatorIsCopy ==
  \A j \in DOMAIN frames : frames[j] = set_index(trialResult[j])

====
